---- MODULE Spec2Model ----
(***************************************************************************)
(* Model of SatSolveProto (ortools/linear_solver/proto_solver/             *)
(* sat_proto_solver.cc): the request -> presolve -> scale -> convert ->    *)
(* solve -> postsolve pipeline between MPModelRequest and CP-SAT.          *)
(*                                                                         *)
(* Real numbers are fixed-point integers counted in units of 1/Unit, so    *)
(* that scaling, clamping, rounding and unscaling are computed exactly.    *)
(* An optional proto field is a sequence: <<>> when unset, <<v>> when set. *)
(* A message string is the sequence of the fragments StrCat joins.         *)
(***************************************************************************)
EXTENDS Integers, Sequences, FiniteSets, TLC

\* ---------------------------------------------------------------- bounds
MaxVars == 2
MaxHints == 2
MaxSteps == 2
MaxAdditional == 2
MaxIntermediate == 2

\* Fixed-point resolution: a double d is held as the integer d * Unit.
Unit == 2 * 2

Abs(x) == IF x < 0 THEN -x ELSE x

SeqsUpTo(S, n) == UNION {[1..k -> S] : k \in 0..n}

\* ------------------------------------------------------------ enumerations
CpSolverStatus ==
    {"UNKNOWN", "MODEL_INVALID", "FEASIBLE", "INFEASIBLE", "OPTIMAL", "UNRECOGNIZED"}

ProblemStatus ==
    {"INIT", "PRIMAL_INFEASIBLE", "INVALID_PROBLEM", "INFEASIBLE_OR_UNBOUNDED",
     "OPTIMAL", "ABNORMAL"}

\* ToMPSolverResponseStatus with the default branch falling back to the value
\* of the first case.
ToMPSolverResponseStatus_DefaultNotSolved(status) ==
    CASE status = "UNKNOWN" -> "MPSOLVER_NOT_SOLVED"
      [] status = "MODEL_INVALID" -> "MPSOLVER_MODEL_INVALID"
      [] status = "FEASIBLE" -> "MPSOLVER_FEASIBLE"
      [] status = "INFEASIBLE" -> "MPSOLVER_INFEASIBLE"
      [] status = "OPTIMAL" -> "MPSOLVER_OPTIMAL"
      [] OTHER -> "MPSOLVER_NOT_SOLVED"

\* ToMPSolverResponseStatus
ToMPSolverResponseStatus(status) ==
    CASE status = "UNKNOWN" -> "MPSOLVER_NOT_SOLVED"
      [] status = "MODEL_INVALID" -> "MPSOLVER_MODEL_INVALID"
      [] status = "FEASIBLE" -> "MPSOLVER_FEASIBLE"
      [] status = "INFEASIBLE" -> "MPSOLVER_INFEASIBLE"
      [] status = "OPTIMAL" -> "MPSOLVER_OPTIMAL"
      [] OTHER -> "MPSOLVER_ABNORMAL"

\* FromMPSolverResponseStatus with the default branch returning the value of
\* the last case.
FromMPSolverResponseStatus_DefaultInvalid(status) ==
    CASE status = "MPSOLVER_OPTIMAL" -> "OPTIMAL"
      [] status = "MPSOLVER_INFEASIBLE" -> "INFEASIBLE"
      [] OTHER -> "MODEL_INVALID"

\* FromMPSolverResponseStatus
FromMPSolverResponseStatus(status) ==
    CASE status = "MPSOLVER_OPTIMAL" -> "OPTIMAL"
      [] status = "MPSOLVER_INFEASIBLE" -> "INFEASIBLE"
      [] status = "MPSOLVER_MODEL_INVALID" -> "MODEL_INVALID"
      [] OTHER -> "UNKNOWN"

\* ---------------------------------------------------------------- protos
\* A default-constructed MPSolutionResponse.
EmptyResponse ==
    [status |-> "MPSOLVER_UNKNOWN_STATUS",
     status_str |-> <<>>,
     objective_value |-> <<>>,
     best_objective_bound |-> <<>>,
     variable_value |-> <<>>,
     additional_solutions |-> <<>>,
     solve_info |-> <<>>]

\* InfeasibleResponse leaving the status at its default.
InfeasibleResponse_StatusUnset(message) ==
    [EmptyResponse EXCEPT !.status_str = message]

\* InfeasibleResponse
InfeasibleResponse(message) ==
    [EmptyResponse EXCEPT !.status = "MPSOLVER_INFEASIBLE", !.status_str = message]

\* ModelInvalidResponse without set_status_str.
ModelInvalidResponse_NoMessage(message) ==
    [EmptyResponse EXCEPT !.status = "MPSOLVER_MODEL_INVALID"]

\* ModelInvalidResponse
ModelInvalidResponse(message) ==
    [EmptyResponse EXCEPT !.status = "MPSOLVER_MODEL_INVALID", !.status_str = message]

\* A default-constructed sat::SatParameters (the fields SatSolveProto reads).
DefaultParams ==
    [log_search_progress |-> FALSE,
     max_time_in_seconds |-> 0,
     enumerate_all_solutions |-> FALSE,
     mip_presolve_level |-> 2,
     mip_automatically_scale_variables |-> TRUE,
     mip_var_scaling |-> 1,
     mip_scale_large_domain |-> FALSE,
     mip_max_bound |-> 10000000 * Unit,
     only_solve_ip |-> FALSE,
     fill_additional_solutions_in_response |-> FALSE]

\* A SatParameters message in which no field is set.
NoFields == [f \in DOMAIN DefaultParams |-> <<>>]

\* proto MergeFrom: every field set in `fields` overwrites the one of `p`.
MergeFrom(p, fields) ==
    [f \in DOMAIN p |-> IF fields[f] # <<>> THEN fields[f][1] ELSE p[f]]

\* A default-constructed MPModelProto / MPModelRequest, as left by Clear().
EmptyModel ==
    [variable |-> <<>>, maximize |-> FALSE, objective_offset |-> 0,
     solution_hint |-> <<>>]

ClearedRequest ==
    [enable_internal_solver_output |-> FALSE,
     solver_specific_parameters |-> <<>>,
     solver_time_limit_seconds |-> <<>>,
     model |-> EmptyModel]

\* ------------------------------------------------------------------ state
VARIABLES
    pc,                 \* position of the call inside SatSolveProto
    caller_request,     \* the MPModelRequest the caller passed (by value)
    request,            \* the callee's copy; mp_model is request.model
    interrupt_solve,    \* TRUE when a cancellation flag was supplied
    solution_callback,  \* TRUE when a solution consumer was supplied
    params,             \* sat::SatParameters
    logger,             \* SolverLogger: [enabled, stats]; stats are the
                        \* CpSolverResponseStats lines it was given
    response,           \* MPSolutionResponse under construction
    ret,                \* what the call returned: [kind, message]
    presolve_status,    \* glop::ProblemStatus of ApplyMipPresolveSteps, "NONE"
                        \* while it has not run
    for_postsolve,      \* std::vector<std::unique_ptr<glop::Preprocessor>>
    var_scaling,        \* std::vector<double>
    detected_scaling,   \* var_scaling as it stood at line 274, before the
                        \* uniform factor was multiplied in
    other_scaling,      \* std::vector<double> other_scaling of line 279, <<>>
                        \* while ScaleContinuousVariables has not run
    cp_model,           \* sat::CpModelProto
    old_num_variables,  \* captured before request.Clear()
    sat_model,          \* sat::Model: what was registered with the engine
    cp_response,        \* sat::CpSolverResponse returned by SolveCpModel
    pending,            \* intermediate solution the engine is reporting
    calls,              \* collaborators invoked so far, in order
    recovered,          \* per post_solve call: the steps whose RecoverSolution ran
    delivered,          \* solutions handed to the solution consumer, in order
    reported            \* solutions the engine handed to the observer, in order

\* The arguments of the call, which the callee never writes.
inputs == <<caller_request, interrupt_solve, solution_callback>>

vars ==
    <<pc, caller_request, request, interrupt_solve, solution_callback, params, logger,
      response, ret, presolve_status, for_postsolve, var_scaling, cp_model, old_num_variables, sat_model,
      cp_response, pending, calls, recovered, delivered, detected_scaling,
      other_scaling, reported>>

\* ----------------------------------------------------------------- inputs
IntVar(lb, ub) ==
    [lower_bound |-> lb, upper_bound |-> ub, is_integer |-> TRUE,
     objective_coefficient |-> Unit]

ContVar(lb, ub) ==
    [lower_bound |-> lb, upper_bound |-> ub, is_integer |-> FALSE,
     objective_coefficient |-> 2 * Unit]

\* [0, 2] is a proper domain; [0.25, 0.75] holds no integer, and twice it,
\* [0.5, 1.5], holds one.
VarKinds ==
    {IntVar(0, 2 * Unit), IntVar(1, 3), ContVar(1, 3)}

Model(variables, maximize, hint) ==
    [variable |-> variables, maximize |-> maximize, objective_offset |-> Unit,
     solution_hint |-> hint]

Blob(fields) == <<[decodes |-> TRUE, fields |-> fields]>>

BadBlob == <<[decodes |-> FALSE, fields |-> NoFields]>>

Request(output, blob, limit, model) ==
    [enable_internal_solver_output |-> output,
     solver_specific_parameters |-> blob,
     solver_time_limit_seconds |-> limit,
     model |-> model]

\* Hint entries: indices below, inside and beyond the variable range; values
\* 0.75, 2.5 and -3.
HintEntries ==
    {[var_index |-> -1, var_value |-> 3],
     [var_index |-> 0, var_value |-> 3],
     [var_index |-> 0, var_value |-> 10],
     [var_index |-> 1, var_value |-> -3 * Unit],
     [var_index |-> 2, var_value |-> 10]}

\* Configuration requests: blob absent, undecodable, or setting the verbosity,
\* a time limit and an out-of-range mip_max_bound.
ConfigRequests ==
    {Request(o, b, l, Model(<<IntVar(0, 2 * Unit)>>, FALSE, <<>>)) :
        o \in BOOLEAN,
        b \in {<<>>, BadBlob} \cup
              {Blob([NoFields EXCEPT !.log_search_progress = lg,
                                     !.max_time_in_seconds = t,
                                     !.mip_max_bound = mb]) :
                  lg \in {<<>>, <<TRUE>>, <<FALSE>>},
                  t \in {<<>>, <<5>>},
                  mb \in {<<>>, <<-Unit>>}},
        l \in {<<>>, <<3>>}}

\* Model requests: every list of at most MaxVars variables, with the switches
\* that steer bound integerization, presolve and the pure-IP check.
ModelRequests ==
    {Request(FALSE,
             Blob([NoFields EXCEPT !.only_solve_ip = <<ip>>,
                                   !.mip_automatically_scale_variables = <<au>>,
                                   !.mip_presolve_level = <<lv>>]),
             <<>>, Model(vs, FALSE, <<>>)) :
        ip \in BOOLEAN, au \in BOOLEAN, lv \in {0, 1},
        vs \in SeqsUpTo(VarKinds, MaxVars)}

\* Presolve requests: the presolve gate and the verbosity of its outcome.
PresolveRequests ==
    {Request(o,
             Blob([NoFields EXCEPT !.enumerate_all_solutions = <<en>>,
                                   !.mip_presolve_level = <<lv>>,
                                   !.mip_automatically_scale_variables = <<FALSE>>]),
             <<>>, Model(<<IntVar(0, 2 * Unit), ContVar(0, 2 * Unit)>>, FALSE, <<>>)) :
        o \in BOOLEAN, en \in BOOLEAN, lv \in {0, 1, 2}}

\* Hint requests: hints of at most MaxHints entries under the scaling switches.
HintRequests ==
    {Request(FALSE,
             Blob([NoFields EXCEPT !.mip_var_scaling = <<sc>>,
                                   !.mip_max_bound = mb,
                                   !.mip_automatically_scale_variables = <<FALSE>>,
                                   !.mip_presolve_level = <<lv>>]),
             <<>>,
             Model(<<IntVar(0, 2 * Unit), ContVar(0, 2 * Unit)>>, FALSE, <<h>>)) :
        sc \in {1, 2}, mb \in {<<>>, <<10>>}, lv \in {0, 1},
        h \in SeqsUpTo(HintEntries, MaxHints)}

\* Solve requests: both optimization directions, with the engine asked for
\* additional solutions or not.
SolveRequests ==
    {Request(FALSE,
             Blob([NoFields EXCEPT !.fill_additional_solutions_in_response = <<fill>>,
                                   !.mip_automatically_scale_variables = <<FALSE>>,
                                   !.mip_var_scaling = <<2>>,
                                   !.mip_presolve_level = <<lv>>]),
             <<>>, Model(vs, mx, <<>>)) :
        fill \in BOOLEAN, lv \in {0, 1}, mx \in BOOLEAN,
        vs \in {<<IntVar(0, 2 * Unit), IntVar(0, 2 * Unit)>>,
                <<IntVar(0, 2 * Unit), ContVar(0, 2 * Unit)>>}}

\* Scaling requests: implied-integer detection together with a uniform factor,
\* on two continuous variables with a hint on each.
ScalingRequests ==
    {Request(FALSE,
             Blob([NoFields EXCEPT !.mip_automatically_scale_variables = <<TRUE>>,
                                   !.mip_var_scaling = <<sc>>,
                                   !.mip_presolve_level = <<0>>]),
             <<>>,
             Model(<<ContVar(1, 3), ContVar(0, 2 * Unit)>>, FALSE,
                   <<<<[var_index |-> 0, var_value |-> 3],
                       [var_index |-> 1, var_value |-> -3 * Unit]>>>>)) :
        sc \in {2, 3}}

\* A request with the optional cancellation flag and solution consumer. The
\* consumer is supplied with the solve requests that do not ask for additional
\* solutions, the flag with the presolve requests.
Invocations ==
    {[request |-> r, interrupt_solve |-> FALSE, solution_callback |-> FALSE] :
        r \in ConfigRequests \cup ModelRequests \cup PresolveRequests
               \cup HintRequests \cup SolveRequests \cup ScalingRequests}
    \cup {[request |-> r, interrupt_solve |-> TRUE, solution_callback |-> FALSE] :
            r \in PresolveRequests}
    \cup {[request |-> r, interrupt_solve |-> FALSE, solution_callback |-> TRUE] :
            r \in {q \in SolveRequests :
                      q.solver_specific_parameters[1].fields
                          .fill_additional_solutions_in_response = <<FALSE>>}}

Init ==
    /\ pc = "MergeParameters"
    /\ \E call \in Invocations :
          /\ caller_request = call.request
          /\ request = call.request
          /\ interrupt_solve = call.interrupt_solve
          /\ solution_callback = call.solution_callback
    /\ params = DefaultParams
    /\ logger = [enabled |-> FALSE, stats |-> <<>>]
    /\ response = EmptyResponse
    /\ ret = [kind |-> "none", message |-> <<>>]
    /\ presolve_status = "NONE"
    /\ for_postsolve = <<>>
    /\ var_scaling = <<>>
    /\ detected_scaling = <<>>
    /\ other_scaling = <<>>
    /\ cp_model = [variables |-> 0, solution_hint |-> <<>>, has_objective |-> FALSE,
                   floating_point_objective |-> [vars |-> <<>>, coeffs |-> <<>>,
                                                 offset |-> 0],
                   objective |-> [scaling_factor |-> 0]]
    /\ old_num_variables = 0
    /\ sat_model = [parameters |-> <<>>, external_limit |-> FALSE, observer |-> FALSE]
    /\ cp_response = <<>>
    /\ pending = <<>>
    /\ calls = <<>>
    /\ recovered = <<>>
    /\ delivered = <<>>
    /\ reported = <<>>

\* The call ends: `kind` is "error" (absl::Status) or "response".
Return(kind, message, resp) ==
    /\ pc' = "done"
    /\ ret' = [kind |-> kind, message |-> message]
    /\ response' = resp

\* SOLVER_LOG(&logger, CpSolverResponseStats(cp_response)) under
\* logger.LoggingIsEnabled().
LogStats(lg, status) ==
    IF lg.enabled THEN [lg EXCEPT !.stats = Append(@, status)] ELSE lg

\* --------------------------------------------------------- collaborators
\* The responses the model validator populates when it rejects or closes a
\* model: the three statuses FromMPSolverResponseStatus names and one it does
\* not.
ValidatorResponses ==
    {[EmptyResponse EXCEPT !.status = st, !.status_str = <<"validator">>] :
        st \in {"MPSOLVER_MODEL_INVALID", "MPSOLVER_INFEASIBLE", "MPSOLVER_OPTIMAL",
                "MPSOLVER_ABNORMAL"}}

\* sat::ValidateParameters: the message of the first field out of its range.
ValidateParameters(p) ==
    IF p.mip_max_bound < 0
    THEN <<"parameter 'mip_max_bound' is out of range">>
    ELSE <<>>

Floor(x) == (x \div Unit) * Unit

Ceil(x) == -Floor(-x)

\* sat::MakeBoundsOfIntegerVariablesInteger: the bounds it leaves.
IntegerizedBounds(variables) ==
    [i \in 1..Len(variables) |->
        IF variables[i].is_integer
        THEN [variables[i] EXCEPT !.lower_bound = Ceil(@), !.upper_bound = Floor(@)]
        ELSE variables[i]]

\* sat::MakeBoundsOfIntegerVariablesInteger: its return value.
MakeBoundsOfIntegerVariablesInteger(variables) ==
    \A i \in 1..Len(variables) :
        variables[i].is_integer =>
            Ceil(variables[i].lower_bound) <= Floor(variables[i].upper_bound)

\* Lines 143-165 with the request's time limit applied before the blob is
\* merged, so that the blob has the last word on it.
MergedParams_LimitFirst(req) ==
    LET base == [DefaultParams EXCEPT
                    !.log_search_progress = req.enable_internal_solver_output,
                    !.max_time_in_seconds =
                        IF req.solver_time_limit_seconds # <<>>
                        THEN req.solver_time_limit_seconds[1] ELSE @]
    IN  IF req.solver_specific_parameters # <<>>
        THEN MergeFrom(base, req.solver_specific_parameters[1].fields)
        ELSE base

\* ---------------------------------------------------------------- actions
\* Lines 143-165: defaults, then the blob, then the request's time limit.
MergedParams(req) ==
    LET base == [DefaultParams EXCEPT
                    !.log_search_progress = req.enable_internal_solver_output]
        merged == IF req.solver_specific_parameters # <<>>
                  THEN MergeFrom(base, req.solver_specific_parameters[1].fields)
                  ELSE base
    IN  IF req.solver_time_limit_seconds # <<>>
        THEN [merged EXCEPT !.max_time_in_seconds = req.solver_time_limit_seconds[1]]
        ELSE merged

\* Lines 143-165 with the result of the merge ignored: an undecodable blob
\* leaves the parameters as they were and the call goes on.
MergeParameters_IgnoresDecodeFailure ==
    /\ pc = "MergeParameters"
    /\ params' = MergedParams(request)
    /\ pc' = "ConfigureLogger"
    /\ calls' = IF request.solver_specific_parameters # <<>>
                THEN Append(calls, "ParseSatParameters") ELSE calls
    /\ UNCHANGED <<inputs, request, logger, response, ret, presolve_status, for_postsolve,
                   var_scaling, detected_scaling,
                   other_scaling, cp_model, old_num_variables, sat_model, cp_response,
                   pending, recovered, delivered, reported>>

MergeParameters ==
    /\ pc = "MergeParameters"
    /\ IF request.solver_specific_parameters # <<>>
          /\ ~request.solver_specific_parameters[1].decodes
       THEN /\ \E kProtoLiteSatParameters \in BOOLEAN :
                Return("error",
                       IF kProtoLiteSatParameters
                       THEN <<"solver_specific_parameters is not a valid binary stream of the SatParameters proto">>
                       ELSE <<"solver_specific_parameters is not a valid textual representation of the SatParameters proto">>,
                       response)
            /\ UNCHANGED params
       ELSE /\ params' = MergedParams(request)
            /\ pc' = "ConfigureLogger"
            /\ UNCHANGED <<ret, response>>
    /\ calls' = IF request.solver_specific_parameters # <<>>
                THEN Append(calls, "ParseSatParameters") ELSE calls
    /\ UNCHANGED <<inputs, request, logger, presolve_status, for_postsolve, var_scaling, detected_scaling,
                   other_scaling,
                   cp_model, old_num_variables, sat_model, cp_response, pending,
                   recovered, delivered, reported>>

\* Lines 173-178.
ConfigureLogger ==
    /\ pc = "ConfigureLogger"
    /\ logger' = [logger EXCEPT !.enabled = params.log_search_progress]
    /\ pc' = "ExtractValidModel"
    /\ UNCHANGED <<inputs, request, params, response, ret, presolve_status,
                   for_postsolve, var_scaling, detected_scaling,
                   other_scaling, cp_model, old_num_variables, sat_model,
                   cp_response, pending, calls, recovered, delivered, reported>>

\* Lines 180-196: the model validator either accepts the model or populates
\* the response, which is returned as it is.
ExtractValidModel ==
    /\ pc = "ExtractValidModel"
    /\ calls' = Append(calls, "ExtractValidMPModelInPlaceOrPopulateResponseStatus")
    /\ \/ /\ pc' = "ValidationBeforeConversion"
          /\ UNCHANGED <<ret, response, logger>>
       \/ \E r \in ValidatorResponses :
            /\ logger' = LogStats(logger, FromMPSolverResponseStatus(r.status))
            /\ Return("response", <<>>, r)
    /\ UNCHANGED <<inputs, request, params, presolve_status, for_postsolve, var_scaling, detected_scaling,
                   other_scaling,
                   cp_model, old_num_variables, sat_model, cp_response, pending,
                   recovered, delivered, reported>>

\* Lines 198-204 without the `return`: a failed extra validation fills the
\* response and the call goes on.
ValidationBeforeConversion_GoesOn ==
    /\ pc = "ValidationBeforeConversion"
    /\ calls' = Append(calls, "MPModelProtoValidationBeforeConversion")
    /\ \/ /\ pc' = "ValidateParameters"
          /\ UNCHANGED <<ret, response, logger>>
       \/ /\ logger' = LogStats(logger, "MODEL_INVALID")
          /\ response' = ModelInvalidResponse(<<"Extra CP-SAT validation failed.">>)
          /\ pc' = "ValidateParameters"
          /\ UNCHANGED ret
    /\ UNCHANGED <<inputs, request, params, presolve_status, for_postsolve, var_scaling,
                   detected_scaling, other_scaling, cp_model, old_num_variables,
                   sat_model, cp_response, pending, recovered, delivered, reported>>

\* Lines 198-204.
ValidationBeforeConversion ==
    /\ pc = "ValidationBeforeConversion"
    /\ calls' = Append(calls, "MPModelProtoValidationBeforeConversion")
    /\ \/ /\ pc' = "ValidateParameters"
          /\ UNCHANGED <<ret, response, logger>>
       \/ /\ logger' = LogStats(logger, "MODEL_INVALID")
          /\ Return("response", <<>>,
                    ModelInvalidResponse(<<"Extra CP-SAT validation failed.">>))
    /\ UNCHANGED <<inputs, request, params, presolve_status, for_postsolve, var_scaling, detected_scaling,
                   other_scaling,
                   cp_model, old_num_variables, sat_model, cp_response, pending,
                   recovered, delivered, reported>>

\* Lines 206-212.
CheckParameters ==
    /\ pc = "ValidateParameters"
    /\ calls' = Append(calls, "ValidateParameters")
    /\ LET error == ValidateParameters(params)
       IN  IF error # <<>>
           THEN /\ logger' = LogStats(logger, "MODEL_INVALID")
                /\ Return("response", <<>>,
                          ModelInvalidResponse(<<"Invalid CP-SAT parameters: ">> \o error))
           ELSE /\ pc' = "IntegerizeBounds"
                /\ UNCHANGED <<ret, response, logger>>
    /\ UNCHANGED <<inputs, request, params, presolve_status, for_postsolve, var_scaling, detected_scaling,
                   other_scaling,
                   cp_model, old_num_variables, sat_model, cp_response, pending,
                   recovered, delivered, reported>>

\* Lines 214-222: bound integerization, then RemoveNearZeroTerms.
IntegerizeBounds ==
    /\ pc = "IntegerizeBounds"
    /\ request' = [request EXCEPT !.model.variable = IntegerizedBounds(@)]
    /\ IF ~MakeBoundsOfIntegerVariablesInteger(request.model.variable)
       THEN /\ calls' = Append(calls, "MakeBoundsOfIntegerVariablesInteger")
            /\ logger' = LogStats(logger, "INFEASIBLE")
            /\ Return("response", <<>>,
                      InfeasibleResponse(<<"An integer variable has an empty domain">>))
       ELSE /\ calls' = calls \o <<"MakeBoundsOfIntegerVariablesInteger",
                                   "RemoveNearZeroTerms">>
            /\ pc' = "MipPresolve"
            /\ UNCHANGED <<ret, response, logger>>
    /\ UNCHANGED <<inputs, params, presolve_status, for_postsolve, var_scaling, detected_scaling,
                   other_scaling,
                   cp_model, old_num_variables, sat_model, cp_response, pending,
                   recovered, delivered, reported>>

\* ApplyMipPresolveSteps: what a run of the presolve steps can leave behind. It
\* applied `k` steps and pushed them in that order; the last one may have
\* removed the last column of the model.
PresolveOutcomes(variables) ==
    UNION {
        {[status |-> st,
          steps |-> [i \in 1..k |->
                        [applied |-> i, cols |-> IF i = k THEN removed ELSE 0]],
          variable |-> SubSeq(variables, 1, Len(variables) - removed)] :
            st \in ProblemStatus,
            removed \in {c \in {0, 1} : c <= k /\ c <= Len(variables)}} :
        k \in 0..MaxSteps}

\* The gate of line 228 without its enumerate_all_solutions half.
PresolveEnabled_IgnoresEnumerate(p) == p.mip_presolve_level > 0

\* Line 228: the gate in front of the presolve steps.
PresolveEnabled(p) == ~p.enumerate_all_solutions /\ p.mip_presolve_level > 0

\* The switch of lines 231-234 with a second `break` case.
PresolveContinues_AlsoOptimal(status) == status \in {"INIT", "OPTIMAL"}

\* Lines 231-234: the presolve outcome with which the solve continues.
PresolveContinues(status) == status = "INIT"

\* The switch of lines 235-256 without the status_str of lines 252-255.
PresolveExitResponse_NoMessage(status, resp) ==
    CASE status = "PRIMAL_INFEASIBLE" ->
            InfeasibleResponse(<<"Problem proven infeasible during MIP presolve">>)
      [] status = "INVALID_PROBLEM" ->
            ModelInvalidResponse(<<"Problem detected invalid during MIP presolve">>)
      [] OTHER -> [resp EXCEPT !.status = "MPSOLVER_UNKNOWN_STATUS"]

\* Lines 235-256: the response returned for every other presolve outcome.
PresolveExitResponse(status, resp) ==
    CASE status = "PRIMAL_INFEASIBLE" ->
            InfeasibleResponse(<<"Problem proven infeasible during MIP presolve">>)
      [] status = "INVALID_PROBLEM" ->
            ModelInvalidResponse(<<"Problem detected invalid during MIP presolve">>)
      [] OTHER ->
            [resp EXCEPT
                !.status = "MPSOLVER_UNKNOWN_STATUS",
                !.status_str =
                    IF status = "INFEASIBLE_OR_UNBOUNDED"
                    THEN <<"Problem proven infeasible or unbounded during MIP presolve">>
                    ELSE @]

\* Lines 103-111, 121-129 and 244-250: the status line the logger is given on
\* a presolve exit (the default branch writes its line with LOG(INFO), not
\* to the logger).
PresolveExitLog(status, lg) ==
    CASE status = "PRIMAL_INFEASIBLE" -> LogStats(lg, "INFEASIBLE")
      [] status = "INVALID_PROBLEM" -> LogStats(lg, "MODEL_INVALID")
      [] OTHER -> lg

\* Lines 224-261: MIP presolve behind its gate, then RemoveNearZeroTerms.
MipPresolve ==
    /\ pc = "MipPresolve"
    /\ IF PresolveEnabled(params)
       THEN \E out \in PresolveOutcomes(request.model.variable) :
            /\ presolve_status' = out.status
            /\ for_postsolve' = out.steps
            /\ request' = [request EXCEPT !.model.variable = out.variable]
            /\ IF PresolveContinues(out.status)
               THEN /\ calls' = calls \o <<"ApplyMipPresolveSteps", "RemoveNearZeroTerms">>
                    /\ pc' = "ScaleVariables"
                    /\ UNCHANGED <<ret, response, logger>>
               ELSE /\ calls' = Append(calls, "ApplyMipPresolveSteps")
                    /\ logger' = PresolveExitLog(out.status, logger)
                    /\ Return("response", <<>>, PresolveExitResponse(out.status, response))
       ELSE /\ calls' = Append(calls, "RemoveNearZeroTerms")
            /\ pc' = "ScaleVariables"
            /\ UNCHANGED <<request, presolve_status, for_postsolve, ret, response,
                           logger>>
    /\ UNCHANGED <<inputs, params, var_scaling, detected_scaling,
                   other_scaling, cp_model, old_num_variables, sat_model,
                   cp_response, pending, recovered, delivered, reported>>

\* Factors implied-integer detection can attach to a variable; 0 is "not detected".
AutoFactors == {0, 1, 2}

\* sat::DetectImpliedIntegers: the choices it can make, one factor per variable
\* (integer variables are left alone).
ImpliedIntegerChoices(variables) ==
    {d \in [1..Len(variables) -> AutoFactors] :
        \A i \in 1..Len(variables) : variables[i].is_integer => d[i] = 0}

\* sat::DetectImpliedIntegers: the model it leaves; a detected variable is
\* scaled by its factor and becomes integer.
DetectedModel(variables, d) ==
    [i \in 1..Len(variables) |->
        IF d[i] = 0 THEN variables[i]
        ELSE [variables[i] EXCEPT !.lower_bound = @ * d[i],
                                  !.upper_bound = @ * d[i],
                                  !.is_integer = TRUE]]

\* sat::DetectImpliedIntegers: the scaling it returns.
DetectedScaling(variables, d) ==
    [i \in 1..Len(variables) |-> IF d[i] = 0 THEN 1 ELSE d[i]]

Min(a, b) == IF a < b THEN a ELSE b

Max(a, b) == IF a > b THEN a ELSE b

\* sat::ScaleContinuousVariables: the factor of one variable. max_bound = <<>>
\* stands for infinity.
ContinuousFactor(var, scaling, max_bound) ==
    LET magnitude == Max(Abs(var.lower_bound), Abs(var.upper_bound))
    IN  IF var.is_integer THEN 1
        ELSE IF max_bound = <<>> THEN scaling
        ELSE IF magnitude = 0 \/ magnitude > max_bound[1] THEN 1
        ELSE Min(scaling, max_bound[1] \div magnitude)

\* sat::ScaleContinuousVariables: the scaling it returns.
ScaleContinuousVariables(scaling, max_bound, variables) ==
    [i \in 1..Len(variables) |-> ContinuousFactor(variables[i], scaling, max_bound)]

\* sat::ScaleContinuousVariables: the model it leaves (ApplyVarScaling).
ScaledModel(variables, other) ==
    [i \in 1..Len(variables) |->
        [variables[i] EXCEPT !.lower_bound = @ * other[i],
                             !.upper_bound = @ * other[i]]]

\* Lines 281-283 with `=` in place of `*=`: the uniform factor replaces the
\* detected one.
CombinedScaling_Replaces(scaling, other) == other

\* Lines 275-284: the uniform scaling multiplied into var_scaling.
CombinedScaling(scaling, other) ==
    [i \in 1..Len(scaling) |-> scaling[i] * other[i]]

\* Lines 263-284: var_scaling from implied-integer detection and the uniform
\* factor.
ScaleVariables ==
    /\ pc = "ScaleVariables"
    /\ \E d \in ImpliedIntegerChoices(request.model.variable) :
        LET auto == params.mip_automatically_scale_variables
            num_variables == Len(request.model.variable)
            detected == IF auto
                        THEN DetectedModel(request.model.variable, d)
                        ELSE request.model.variable
            scaling == IF auto
                       THEN DetectedScaling(request.model.variable, d)
                       ELSE [i \in 1..num_variables |-> 1]
            integerized == IF auto THEN IntegerizedBounds(detected) ELSE detected
            max_bound == IF params.mip_scale_large_domain
                         THEN <<>> ELSE <<params.mip_max_bound>>
            continuous ==
                ScaleContinuousVariables(params.mip_var_scaling, max_bound, integerized)
        IN  /\ auto \/ \A i \in 1..num_variables : d[i] = 0
            /\ IF auto /\ ~MakeBoundsOfIntegerVariablesInteger(detected)
               THEN /\ request' = [request EXCEPT !.model.variable = integerized]
                    /\ calls' = calls \o <<"DetectImpliedIntegers",
                                           "MakeBoundsOfIntegerVariablesInteger">>
                    /\ var_scaling' = scaling
                    /\ detected_scaling' = scaling
                    /\ UNCHANGED other_scaling
                    /\ logger' = LogStats(logger, "INFEASIBLE")
                    /\ Return("response", <<>>,
                              InfeasibleResponse(
                                  <<"A detected integer variable has an empty domain">>))
               ELSE /\ calls' = calls
                            \o (IF auto
                                THEN <<"DetectImpliedIntegers",
                                       "MakeBoundsOfIntegerVariablesInteger">>
                                ELSE <<>>)
                            \o (IF params.mip_var_scaling # 1
                                THEN <<"ScaleContinuousVariables">> ELSE <<>>)
                    /\ IF params.mip_var_scaling # 1
                       THEN /\ var_scaling' = CombinedScaling(scaling, continuous)
                            /\ other_scaling' = continuous
                            /\ request' = [request EXCEPT !.model.variable =
                                              ScaledModel(integerized, continuous)]
                       ELSE /\ var_scaling' = scaling
                            /\ UNCHANGED other_scaling
                            /\ request' = [request EXCEPT !.model.variable = integerized]
                    /\ detected_scaling' = scaling
                    /\ pc' = "OnlySolveIp"
                    /\ UNCHANGED <<ret, response, logger>>
    /\ UNCHANGED <<inputs, params, presolve_status, for_postsolve, cp_model,
                   old_num_variables, sat_model, cp_response, pending, recovered,
                   delivered, reported>>

\* The loop of lines 288-294 leaving after the first variable.
AllInteger_FirstOnly(variables) == Len(variables) = 0 \/ variables[1].is_integer

\* Lines 288-294: all_integer.
AllInteger(variables) == \A i \in 1..Len(variables) : variables[i].is_integer

\* Lines 298-301.
OnlySolveIpMessage ==
    <<"The model contains non-integer variables but the parameter 'only_solve_ip' was set. Change this parameter if you still want to solve a more constrained version of the original MIP where non-integer variables can only take a finite set of values.">>

\* Lines 286-303: the pure-IP switch, checked on the model as it stands now.
OnlySolveIp ==
    /\ pc = "OnlySolveIp"
    /\ LET all_integer == AllInteger(request.model.variable)
       IN  IF params.only_solve_ip /\ ~all_integer
           THEN /\ logger' = LogStats(logger, "MODEL_INVALID")
                /\ Return("response", <<>>,
                          ModelInvalidResponse(OnlySolveIpMessage))
           ELSE /\ pc' = "ConvertModel"
                /\ UNCHANGED <<ret, response, logger>>
    /\ UNCHANGED <<inputs, request, params, presolve_status, for_postsolve, var_scaling, detected_scaling,
                   other_scaling,
                   cp_model, old_num_variables, sat_model, cp_response, pending, calls,
                   recovered, delivered, reported>>

\* ConvertMPModelProtoToCpModelProto: the objective scaling factors it can
\* declare; 0 is "unset", the other one is 2.0.
ObjectiveScalingFactors == {0, 2 * Unit}

\* ConvertMPModelProtoToCpModelProto: the CpModelProto of a model it accepts,
\* one variable per model variable, index by index.
ConvertedModel(model, factor) ==
    [variables |-> Len(model.variable),
     solution_hint |-> <<>>,
     has_objective |-> Len(model.variable) > 0,
     floating_point_objective |->
        [vars |-> [i \in 1..Len(model.variable) |-> i - 1],
         coeffs |-> [i \in 1..Len(model.variable) |->
                        model.variable[i].objective_coefficient],
         offset |-> model.objective_offset],
     objective |-> [scaling_factor |-> factor]]

\* Lines 305-312.
ConvertModel ==
    /\ pc = "ConvertModel"
    /\ calls' = Append(calls, "ConvertMPModelProtoToCpModelProto")
    /\ \/ /\ \E factor \in ObjectiveScalingFactors :
                cp_model' = ConvertedModel(request.model, factor)
          /\ pc' = "ProjectHint"
          /\ UNCHANGED <<ret, response, logger>>
       \/ /\ logger' = LogStats(logger, "MODEL_INVALID")
          /\ Return("response", <<>>,
                    ModelInvalidResponse(<<"Failed to convert model into CP-SAT model">>))
          /\ UNCHANGED cp_model
    /\ UNCHANGED <<inputs, request, params, presolve_status, for_postsolve, var_scaling, detected_scaling,
                   other_scaling,
                   old_num_variables, sat_model, cp_response, pending, recovered,
                   delivered, reported>>

\* std::round, then static_cast<int64_t>: halves go away from zero.
Round(x) ==
    IF x >= 0 THEN (2 * x + Unit) \div (2 * Unit)
    ELSE -((2 * (-x) + Unit) \div (2 * Unit))

\* Lines 322-329: scale, then cap at +/- mip_max_bound.
CappedHintValue(var_value, factor, max_bound) ==
    LET value == var_value * factor
    IN  IF Abs(value) > max_bound
        THEN (IF value > 0 THEN max_bound ELSE -max_bound)
        ELSE value

\* Line 320: the entries the loop skips. The comparison is unsigned: `var` is
\* converted to size_t, so a negative int becomes 2^64 + var, which is above
\* the size of any vector.
HintDropped(var, scaling) == var < 0 \/ var >= Len(scaling)

\* The loop of lines 318-333 with `break` in place of `continue`: the first
\* entry out of range ends the projection.
RECURSIVE ProjectedHint_StopsAtDropped(_, _, _, _)
ProjectedHint_StopsAtDropped(hint, i, scaling, max_bound) ==
    IF i > Len(hint) THEN <<>>
    ELSE IF HintDropped(hint[i].var_index, scaling)
         THEN <<>>
         ELSE <<[var |-> hint[i].var_index,
                 value |-> Round(CappedHintValue(hint[i].var_value,
                                                 scaling[hint[i].var_index + 1],
                                                 max_bound))]>>
              \o ProjectedHint_StopsAtDropped(hint, i + 1, scaling, max_bound)

\* Lines 318-333: the loop over the hint entries from entry i on.
RECURSIVE ProjectedHint(_, _, _, _)
ProjectedHint(hint, i, scaling, max_bound) ==
    IF i > Len(hint) THEN <<>>
    ELSE IF HintDropped(hint[i].var_index, scaling)
         THEN ProjectedHint(hint, i + 1, scaling, max_bound)
         ELSE <<[var |-> hint[i].var_index,
                 value |-> Round(CappedHintValue(hint[i].var_value,
                                                 scaling[hint[i].var_index + 1],
                                                 max_bound))]>>
              \o ProjectedHint(hint, i + 1, scaling, max_bound)

\* Lines 314-334.
ProjectHint ==
    /\ pc = "ProjectHint"
    /\ cp_model' =
          IF request.model.solution_hint # <<>>
          THEN [cp_model EXCEPT !.solution_hint =
                   ProjectedHint(request.model.solution_hint[1], 1, var_scaling,
                                 params.mip_max_bound)]
          ELSE cp_model
    /\ pc' = "ConfigureSatModel"
    /\ UNCHANGED <<inputs, request, params, logger, response, ret, presolve_status,
                   for_postsolve, var_scaling, detected_scaling,
                   other_scaling, old_num_variables, sat_model,
                   cp_response, pending, calls, recovered, delivered, reported>>

\* Lines 336-348 with the variable count read after request.Clear() instead
\* of before it.
ConfigureSatModel_CountsAfterClear ==
    /\ pc = "ConfigureSatModel"
    /\ old_num_variables' = Len(ClearedRequest.model.variable)
    /\ request' = ClearedRequest
    /\ sat_model' = [parameters |-> <<params>>,
                     external_limit |-> interrupt_solve,
                     observer |-> solution_callback]
    /\ pc' = "SolveCpModel"
    /\ UNCHANGED <<inputs, params, logger, response, ret, presolve_status,
                   for_postsolve, var_scaling, detected_scaling, other_scaling,
                   cp_model, cp_response, pending, calls, recovered, delivered,
                   reported>>

\* Lines 336-348 and 370-375: the request is cleared; parameters, the
\* cancellation flag and the solution observer are registered.
ConfigureSatModel ==
    /\ pc = "ConfigureSatModel"
    /\ old_num_variables' = Len(request.model.variable)
    /\ request' = ClearedRequest
    /\ sat_model' = [parameters |-> <<params>>,
                     external_limit |-> interrupt_solve,
                     observer |-> solution_callback]
    /\ pc' = "SolveCpModel"
    /\ UNCHANGED <<inputs, params, logger, response, ret, presolve_status,
                   for_postsolve, var_scaling, detected_scaling,
                   other_scaling, cp_model, cp_response, pending, calls,
                   recovered, delivered, reported>>

\* ------------------------------------------------------------- postsolve
\* Lines 356-359: every engine value divided by its scaling factor.
Unscaled(solution, scaling, num_variables) ==
    [v \in 1..num_variables |-> (solution[v] * Unit) \div scaling[v]]

\* glop::Preprocessor::RecoverSolution of one step: the columns the step
\* removed come back, at value zero.
RecoverSolution(step, primal_values) ==
    primal_values \o [c \in 1..step.cols |-> 0]

\* The loop of lines 360-362 stopping one step early (`--i > 0`): the step
\* applied first is never recovered.
RECURSIVE RecoverFrom_SkipsFirst(_, _, _, _)
RecoverFrom_SkipsFirst(stack, i, primal_values, ran) ==
    IF i < 2 THEN [primal_values |-> primal_values, ran |-> ran]
    ELSE RecoverFrom_SkipsFirst(stack, i - 1,
                                primal_values \o [c \in 1..stack[i].cols |-> 0],
                                Append(ran, stack[i].applied))

\* Lines 360-362: the loop `for (int i = for_postsolve.size(); --i >= 0;)`
\* from index i down; `ran` collects the steps in the order they were invoked.
RECURSIVE RecoverFrom(_, _, _, _)
RecoverFrom(stack, i, primal_values, ran) ==
    IF i < 1 THEN [primal_values |-> primal_values, ran |-> ran]
    ELSE RecoverFrom(stack, i - 1, RecoverSolution(stack[i], primal_values),
                     Append(ran, stack[i].applied))

\* Lines 350-368: the post_solve lambda. `ran` is not part of the MPSolution;
\* it records the RecoverSolution calls the lambda made.
PostSolve(solution, objective_value, stack, scaling, num_variables) ==
    LET r == RecoverFrom(stack, Len(stack),
                         Unscaled(solution, scaling, num_variables), <<>>)
    IN  [objective_value |-> objective_value,
         variable_value |-> r.primal_values,
         ran |-> r.ran]

MPSolution(p) ==
    [objective_value |-> p.objective_value, variable_value |-> p.variable_value]

\* ---------------------------------------------------------------- engine
\* Engine-space assignments of n variables the engine reports in this model.
EngineSolutions(n) ==
    {[v \in 1..n |-> 0],
     [v \in 1..n |-> IF v % 2 = 1 THEN 0 ELSE 3],
     [v \in 1..n |-> IF v % 2 = 1 THEN 3 ELSE 0]}

RECURSIVE SumTerms(_, _, _)
SumTerms(objective, values, i) ==
    IF i > Len(objective.vars) THEN 0
    ELSE values[objective.vars[i] + 1] * objective.coeffs[i]
         + SumTerms(objective, values, i + 1)

\* The objective the engine declares for an assignment: offset plus terms,
\* times the scaling factor the model declares (unset counts as one).
EngineObjective(model, values) ==
    LET raw == model.floating_point_objective.offset
                  + SumTerms(model.floating_point_objective, values, 1)
        factor == IF model.objective.scaling_factor = 0
                  THEN Unit ELSE model.objective.scaling_factor
    IN  (raw * factor) \div Unit

\* sat::SolveCpModel: the responses it can return for a model of n variables.
\* Additional solutions are filled in only on request.
EngineResponses(model, p) ==
    {[status |-> st,
      solution |-> sol,
      objective_value |-> IF sol = <<>> THEN 0 ELSE EngineObjective(model, sol),
      best_objective_bound |-> IF sol = <<>> THEN 0 ELSE EngineObjective(model, sol),
      additional_solutions |-> more,
      wall_time |-> 1,
      user_time |-> 1] :
        st \in CpSolverStatus,
        sol \in EngineSolutions(model.variables) \cup {<<>>},
        more \in IF p.fill_additional_solutions_in_response
                 THEN SeqsUpTo(EngineSolutions(model.variables), MaxAdditional)
                 ELSE {<<>>}}

HasSolution(status) == status \in {"FEASIBLE", "OPTIMAL"}

\* Lines 377-379: the engine is entered.
SolveCpModel ==
    /\ pc = "SolveCpModel"
    /\ calls' = Append(calls, "SolveCpModel")
    /\ pc' = "InEngine"
    /\ UNCHANGED <<inputs, request, params, logger, response, ret, presolve_status,
                   for_postsolve, var_scaling, detected_scaling,
                   other_scaling, cp_model, old_num_variables, sat_model,
                   cp_response, pending, recovered, delivered, reported>>

\* The engine found a solution and calls the registered observer with it.
EngineReportsSolution ==
    /\ pc = "InEngine"
    /\ sat_model.observer
    /\ pending = <<>>
    /\ Len(reported) < MaxIntermediate
    /\ \E sol \in EngineSolutions(cp_model.variables) :
          LET found == [solution |-> sol,
                        objective_value |-> EngineObjective(cp_model, sol)]
          IN  /\ pending' = <<found>>
              /\ reported' = Append(reported, found)
    /\ UNCHANGED <<inputs, pc, request, params, logger, response, ret, presolve_status,
                   for_postsolve, var_scaling, detected_scaling,
                   other_scaling, cp_model, old_num_variables, sat_model,
                   cp_response, calls, recovered, delivered>>

\* The observer of lines 371-374 returning to the engine without having called
\* the consumer.
SolutionObserver_KeepsSolution ==
    /\ pc = "InEngine"
    /\ pending # <<>>
    /\ pending' = <<>>
    /\ UNCHANGED <<inputs, pc, request, params, logger, response, ret, presolve_status,
                   for_postsolve, var_scaling, detected_scaling, other_scaling,
                   cp_model, old_num_variables, sat_model, cp_response, calls,
                   recovered, delivered, reported>>

\* Lines 371-374: the observer postsolves the solution and hands it to the
\* consumer; the engine resumes when it returns.
SolutionObserver ==
    /\ pc = "InEngine"
    /\ pending # <<>>
    /\ LET p == PostSolve(pending[1].solution, pending[1].objective_value,
                          for_postsolve, var_scaling, old_num_variables)
       IN  /\ delivered' = Append(delivered, MPSolution(p))
           /\ recovered' = Append(recovered, p.ran)
    /\ pending' = <<>>
    /\ UNCHANGED <<inputs, pc, request, params, logger, response, ret, presolve_status,
                   for_postsolve, var_scaling, detected_scaling,
                   other_scaling, cp_model, old_num_variables, sat_model,
                   cp_response, calls, reported>>

\* SolveCpModel returns.
EngineReturns ==
    /\ pc = "InEngine"
    /\ pending = <<>>
    /\ \E r \in EngineResponses(cp_model, sat_model.parameters[1]) :
          /\ HasSolution(r.status) <=> r.solution # <<>>
          /\ cp_response' = <<r>>
    /\ pc' = "ConvertResponse"
    /\ UNCHANGED <<inputs, request, params, logger, response, ret, presolve_status,
                   for_postsolve, var_scaling, detected_scaling,
                   other_scaling, cp_model, old_num_variables, sat_model,
                   pending, calls, recovered, delivered, reported>>

\* -------------------------------------------------------------- response
\* Lines 381-397 with the test of lines 390-391 reduced to MPSOLVER_OPTIMAL.
ConvertResponse_OnlyOptimal ==
    /\ pc = "ConvertResponse"
    /\ LET cp == cp_response[1]
           status == ToMPSolverResponseStatus(cp.status)
           timed == [response EXCEPT
                        !.solve_info = <<[solve_wall_time_seconds |-> cp.wall_time,
                                          solve_user_time_seconds |-> cp.user_time]>>,
                        !.status = status]
       IN  IF status = "MPSOLVER_OPTIMAL"
           THEN LET p == PostSolve(cp.solution, cp.objective_value, for_postsolve,
                                   var_scaling, old_num_variables)
                IN  /\ response' = [timed EXCEPT
                                       !.objective_value = <<cp.objective_value>>,
                                       !.best_objective_bound = <<cp.best_objective_bound>>,
                                       !.variable_value = p.variable_value]
                    /\ recovered' = Append(recovered, p.ran)
           ELSE /\ response' = timed
                /\ UNCHANGED recovered
    /\ pc' = "AdditionalSolutions"
    /\ UNCHANGED <<inputs, request, params, logger, ret, presolve_status, for_postsolve,
                   var_scaling, detected_scaling,
                   other_scaling, cp_model, old_num_variables, sat_model, cp_response,
                   pending, calls, delivered, reported>>

\* Lines 381-397.
ConvertResponse ==
    /\ pc = "ConvertResponse"
    /\ LET cp == cp_response[1]
           status == ToMPSolverResponseStatus(cp.status)
           timed == [response EXCEPT
                        !.solve_info = <<[solve_wall_time_seconds |-> cp.wall_time,
                                          solve_user_time_seconds |-> cp.user_time]>>,
                        !.status = status]
       IN  IF status = "MPSOLVER_FEASIBLE" \/ status = "MPSOLVER_OPTIMAL"
           THEN LET p == PostSolve(cp.solution, cp.objective_value, for_postsolve,
                                   var_scaling, old_num_variables)
                IN  /\ response' = [timed EXCEPT
                                       !.objective_value = <<cp.objective_value>>,
                                       !.best_objective_bound = <<cp.best_objective_bound>>,
                                       !.variable_value = p.variable_value]
                    /\ recovered' = Append(recovered, p.ran)
           ELSE /\ response' = timed
                /\ UNCHANGED recovered
    /\ pc' = "AdditionalSolutions"
    /\ UNCHANGED <<inputs, request, params, logger, ret, presolve_status, for_postsolve,
                   var_scaling, detected_scaling,
                   other_scaling, cp_model, old_num_variables, sat_model, cp_response,
                   pending, calls, delivered, reported>>

\* Lines 408-413 without lines 414-417: the declared scaling factor is never
\* applied.
AdditionalObjective_IgnoresScalingFactor(model, values) ==
    model.floating_point_objective.offset
        + SumTerms(model.floating_point_objective, values, 1)

\* Lines 408-417: the objective recomputed for an additional solution.
AdditionalObjective(model, values) ==
    LET obj == model.floating_point_objective.offset
                  + SumTerms(model.floating_point_objective, values, 1)
    IN  IF model.objective.scaling_factor # 0
        THEN (obj * model.objective.scaling_factor) \div Unit
        ELSE obj

\* The loop of lines 402-422 without the comparison of lines 404-407: every
\* additional solution is postsolved and reported.
RECURSIVE PostsolvedAdditional_KeepsIdentical(_, _, _, _, _, _, _)
PostsolvedAdditional_KeepsIdentical(more, i, primary, model, stack, scaling, num_variables) ==
    IF i > Len(more) THEN <<>>
    ELSE <<PostSolve(more[i], AdditionalObjective(model, more[i]), stack,
                     scaling, num_variables)>>
         \o PostsolvedAdditional_KeepsIdentical(more, i + 1, primary, model, stack,
                                                scaling, num_variables)

\* Lines 402-422: the loop over the engine's additional solutions from entry i
\* on: the postsolved solutions, each with the steps its postsolve ran.
RECURSIVE PostsolvedAdditional(_, _, _, _, _, _, _)
PostsolvedAdditional(more, i, primary, model, stack, scaling, num_variables) ==
    IF i > Len(more) THEN <<>>
    ELSE IF more[i] = primary
         THEN PostsolvedAdditional(more, i + 1, primary, model, stack, scaling,
                                   num_variables)
         ELSE <<PostSolve(more[i], AdditionalObjective(model, more[i]), stack,
                          scaling, num_variables)>>
              \o PostsolvedAdditional(more, i + 1, primary, model, stack, scaling,
                                      num_variables)

\* Lines 399-422.
AdditionalSolutions ==
    /\ pc = "AdditionalSolutions"
    /\ LET ps == PostsolvedAdditional(cp_response[1].additional_solutions, 1,
                                      cp_response[1].solution, cp_model, for_postsolve,
                                      var_scaling, old_num_variables)
       IN  /\ response' = [response EXCEPT !.additional_solutions =
                              [i \in 1..Len(ps) |-> MPSolution(ps[i])]]
           /\ recovered' = recovered \o [i \in 1..Len(ps) |-> ps[i].ran]
    /\ pc' = "SortAdditional"
    /\ UNCHANGED <<inputs, request, params, logger, ret, presolve_status, for_postsolve,
                   var_scaling, detected_scaling,
                   other_scaling, cp_model, old_num_variables, sat_model, cp_response,
                   pending, calls, delivered, reported>>

\* Lines 426-432: the comparator handed to std::sort.
SortsBefore(is_maximize, left, right) ==
    IF is_maximize
    THEN left.objective_value > right.objective_value
    ELSE left.objective_value < right.objective_value

Arrangements(n) == {f \in [1..n -> 1..n] : \A i, j \in 1..n : f[i] = f[j] => i = j}

\* std::sort: any arrangement in which no element sorts before an earlier one;
\* the order of equivalent elements is unspecified.
SortOutcomes(is_maximize, solutions) ==
    {sorted \in {[i \in 1..Len(solutions) |-> solutions[f[i]]] :
                    f \in Arrangements(Len(solutions))} :
        \A i, j \in 1..Len(sorted) :
            i < j => ~SortsBefore(is_maximize, sorted[j], sorted[i])}

\* Line 423: the direction read from the request at the time of the sort.
SortDirection(req) == req.model.maximize

\* Lines 423-433.
SortAdditional ==
    /\ pc = "SortAdditional"
    /\ \E sorted \in SortOutcomes(SortDirection(request), response.additional_solutions) :
          Return("response", <<>>, [response EXCEPT !.additional_solutions = sorted])
    /\ UNCHANGED <<inputs, request, params, logger, presolve_status, for_postsolve,
                   var_scaling, detected_scaling,
                   other_scaling, cp_model, old_num_variables, sat_model, cp_response,
                   pending, calls, recovered, delivered, reported>>

Next ==
    \/ MergeParameters
    \/ ConfigureLogger
    \/ ExtractValidModel
    \/ ValidationBeforeConversion
    \/ CheckParameters
    \/ IntegerizeBounds
    \/ MipPresolve
    \/ ScaleVariables
    \/ OnlySolveIp
    \/ ConvertModel
    \/ ProjectHint
    \/ ConfigureSatModel
    \/ SolveCpModel
    \/ EngineReportsSolution
    \/ SolutionObserver
    \/ EngineReturns
    \/ ConvertResponse
    \/ AdditionalSolutions
    \/ SortAdditional

Spec == Init /\ [][Next]_vars

\* ============================================================ properties
Range(s) == {s[i] : i \in 1..Len(s)}

Reverse(s) == [i \in 1..Len(s) |-> s[Len(s) + 1 - i]]

\* The engine returned and its response has been converted.
EngineAnswered ==
    /\ cp_response # <<>>
    /\ pc \in {"AdditionalSolutions", "SortAdditional", "done"}

\* The call returned the response assembled from the engine's answer.
SolvedAndReturned == pc = "done" /\ cp_response # <<>>

\* C1: when the call has returned an engine-backed response, its additional
\* solutions are ordered by the direction the caller's request declared:
\* non-increasing objective for a maximization, non-decreasing otherwise.
C1_SortedByRequestDirection ==
    SolvedAndReturned =>
        \A i \in 1..(Len(response.additional_solutions) - 1) :
            IF caller_request.model.maximize
            THEN response.additional_solutions[i].objective_value
                    >= response.additional_solutions[i + 1].objective_value
            ELSE response.additional_solutions[i].objective_value
                    <= response.additional_solutions[i + 1].objective_value

\* C2, as stated: once the engine's status has been converted, optimal,
\* infeasible, model-invalid and feasible map to themselves and every other
\* engine status, UNKNOWN included, maps to abnormal.
C2_EveryOtherStatusAbnormal ==
    EngineAnswered =>
        response.status =
            CASE cp_response[1].status = "OPTIMAL" -> "MPSOLVER_OPTIMAL"
              [] cp_response[1].status = "INFEASIBLE" -> "MPSOLVER_INFEASIBLE"
              [] cp_response[1].status = "MODEL_INVALID" -> "MPSOLVER_MODEL_INVALID"
              [] cp_response[1].status = "FEASIBLE" -> "MPSOLVER_FEASIBLE"
              [] OTHER -> "MPSOLVER_ABNORMAL"

\* C2, amended: optimal, infeasible, model-invalid and feasible map to
\* themselves, the engine's UNKNOWN maps to not-solved, and only a status
\* outside these five maps to abnormal.
C2_StatusMapping ==
    EngineAnswered =>
        /\ cp_response[1].status = "OPTIMAL" => response.status = "MPSOLVER_OPTIMAL"
        /\ cp_response[1].status = "INFEASIBLE" => response.status = "MPSOLVER_INFEASIBLE"
        /\ cp_response[1].status = "MODEL_INVALID"
              => response.status = "MPSOLVER_MODEL_INVALID"
        /\ cp_response[1].status = "FEASIBLE" => response.status = "MPSOLVER_FEASIBLE"
        /\ cp_response[1].status = "UNKNOWN" => response.status = "MPSOLVER_NOT_SOLVED"
        /\ cp_response[1].status
              \notin {"OPTIMAL", "INFEASIBLE", "MODEL_INVALID", "FEASIBLE", "UNKNOWN"}
              => response.status = "MPSOLVER_ABNORMAL"

\* An unrecognized engine status was returned to the caller as abnormal.
C2_Witness ==
    /\ SolvedAndReturned
    /\ cp_response[1].status = "UNRECOGNIZED"
    /\ response.status = "MPSOLVER_ABNORMAL"

\* The steps of the stack in the order presolve applied them.
AppliedOrder == [i \in 1..Len(for_postsolve) |-> for_postsolve[i].applied]

\* C3: every postsolve (primary, additional or streamed) invokes the recovery
\* of every presolve step exactly once, most recently applied first; the
\* primary values are the engine values divided by their scaling factors,
\* followed by what the steps restore; and no step after presolve, a
\* postsolve included, changes the stack.
C3_PostsolveUnwindsInReverse ==
    /\ [](\A j \in 1..Len(recovered) : recovered[j] = Reverse(AppliedOrder))
    /\ [](EngineAnswered /\ response.variable_value # <<>> =>
            /\ Len(response.variable_value) >= old_num_variables
            /\ \A v \in 1..old_num_variables :
                  response.variable_value[v] * var_scaling[v]
                      = cp_response[1].solution[v] * Unit)
    /\ [][pc # "MipPresolve" => for_postsolve' = for_postsolve]_vars

\* A call that postsolved at least twice over a stack of at least two steps.
C3_Witness ==
    /\ SolvedAndReturned
    /\ Len(for_postsolve) >= 2
    /\ Len(recovered) >= 2
    /\ response.variable_value # <<>>

\* An integer variable of the model has no value left between its bounds.
EmptyIntegerDomain ==
    \E i \in 1..Len(request.model.variable) :
        /\ request.model.variable[i].is_integer
        /\ request.model.variable[i].lower_bound > request.model.variable[i].upper_bound

\* C4: when bound integerization (the first pass or the pass after
\* implied-integer detection) leaves an integer variable with an empty domain,
\* the call has returned a response of status Infeasible whose message names
\* the empty domain, and the engine was not invoked.
C4_EmptyDomainIsInfeasible ==
    EmptyIntegerDomain =>
        /\ pc = "done"
        /\ ret.kind = "response"
        /\ response.status = "MPSOLVER_INFEASIBLE"
        /\ response.status_str \in
              {<<"An integer variable has an empty domain">>,
               <<"A detected integer variable has an empty domain">>}
        /\ "SolveCpModel" \notin Range(calls)
        /\ cp_response = <<>>

\* The pass after implied-integer detection found an empty domain.
C4_Witness ==
    /\ pc = "done"
    /\ EmptyIntegerDomain
    /\ "DetectImpliedIntegers" \in Range(calls)
    /\ response.status = "MPSOLVER_INFEASIBLE"

\* The first pass found an empty domain.
C4_FirstPassReached ==
    /\ pc = "done"
    /\ EmptyIntegerDomain
    /\ "DetectImpliedIntegers" \notin Range(calls)

Last(s) == s[Len(s)]

\* The call ended right after the parameter-range validator: the validator
\* reported a violation.
RangeViolationReported ==
    pc = "done" /\ calls # <<>> /\ Last(calls) = "ValidateParameters"

\* The caller's configuration blob does not decode.
BlobUndecodable ==
    /\ caller_request.solver_specific_parameters # <<>>
    /\ ~caller_request.solver_specific_parameters[1].decodes

\* The caller's configuration decodes and is outside the allowed ranges.
ConfigOutOfRange ==
    /\ ~BlobUndecodable
    /\ ValidateParameters(MergedParams(caller_request)) # <<>>

\* C5, as stated: a configuration that decodes but violates the range table
\* makes the call fail with an error result, as an undecodable blob does.
C5_RangeViolationIsErrorResult ==
    RangeViolationReported => ret.kind = "error"

\* C5, amended: a configuration that decodes but violates the range table
\* makes the call return normally, with a response of status ModelInvalid
\* whose message is "Invalid CP-SAT parameters: " followed by the validator's
\* message; only an undecodable blob yields an error result.
C5_RangeViolationIsModelInvalid ==
    /\ RangeViolationReported =>
          /\ ret.kind = "response"
          /\ response.status = "MPSOLVER_MODEL_INVALID"
          /\ ValidateParameters(params) # <<>>
          /\ response.status_str
                = <<"Invalid CP-SAT parameters: ">> \o ValidateParameters(params)
    /\ pc = "done" /\ BlobUndecodable => ret.kind = "error"
    /\ ret.kind = "error" => BlobUndecodable

\* A call that ended on an out-of-range configuration.
C5_Witness ==
    /\ RangeViolationReported
    /\ ConfigOutOfRange
    /\ response.status = "MPSOLVER_MODEL_INVALID"

\* The collaborators that read or rewrite the model before conversion.
ModelWork ==
    {"ExtractValidMPModelInPlaceOrPopulateResponseStatus",
     "MPModelProtoValidationBeforeConversion",
     "MakeBoundsOfIntegerVariablesInteger", "RemoveNearZeroTerms",
     "ApplyMipPresolveSteps"}

\* C6, as stated: with an undecodable or out-of-range configuration no model
\* work is ever done.
C6_ConfigErrorsBeforeModelWork ==
    BlobUndecodable \/ ConfigOutOfRange => Range(calls) \cap ModelWork = {}

\* C6, amended: an undecodable blob ends the call with an error before any
\* model work. An out-of-range value is detected only after model validation
\* and the extra pre-conversion validation have run, so the call can end with
\* the validator's response or with the extra validation's failure instead;
\* bound integerization, near-zero-term removal, presolve, conversion and the
\* engine are never reached.
C6_ConfigErrorsBeforeModelRewrite ==
    /\ BlobUndecodable =>
          /\ Range(calls) \cap ModelWork = {}
          /\ pc \in {"MergeParameters", "done"}
          /\ request = caller_request
    /\ ConfigOutOfRange =>
          /\ Range(calls) \subseteq
                {"ParseSatParameters",
                 "ExtractValidMPModelInPlaceOrPopulateResponseStatus",
                 "MPModelProtoValidationBeforeConversion", "ValidateParameters"}
          /\ pc = "done" =>
                /\ ret.kind = "response"
                /\ \/ response \in ValidatorResponses
                   \/ response.status = "MPSOLVER_MODEL_INVALID"

\* An out-of-range configuration whose call ended in the model validator.
C6_Witness ==
    /\ ConfigOutOfRange
    /\ pc = "done"
    /\ Last(calls) = "ExtractValidMPModelInPlaceOrPopulateResponseStatus"
    /\ response \in ValidatorResponses

\* An undecodable blob that ended the call before any model work.
C6_UndecodableReached ==
    BlobUndecodable /\ pc = "done" /\ ret.kind = "error"

\* C7: the presolve outcome decides what follows it. Continue goes on to
\* scaling; ProvenInfeasible returns Infeasible, ProvenInvalid ModelInvalid and
\* InfeasibleOrUnbounded Unknown; after any outcome other than Continue the
\* call has returned from presolve and scaling, conversion and the engine
\* were never reached.
C7_PresolveOutcomeClassified ==
    /\ presolve_status = "PRIMAL_INFEASIBLE" => response.status = "MPSOLVER_INFEASIBLE"
    /\ presolve_status = "INVALID_PROBLEM" => response.status = "MPSOLVER_MODEL_INVALID"
    /\ presolve_status = "INFEASIBLE_OR_UNBOUNDED"
          => response.status = "MPSOLVER_UNKNOWN_STATUS"
    /\ presolve_status \notin {"NONE", "INIT"} =>
          /\ pc = "done"
          /\ ret.kind = "response"
          /\ Last(calls) = "ApplyMipPresolveSteps"
          /\ var_scaling = <<>>
          /\ cp_response = <<>>
          /\ Range(calls) \cap {"DetectImpliedIntegers", "ScaleContinuousVariables",
                                "ConvertMPModelProtoToCpModelProto", "SolveCpModel"} = {}
    /\ presolve_status = "INIT" =>
          /\ Last(calls) # "ApplyMipPresolveSteps"
          /\ pc # "MipPresolve"

\* Presolve could not tell infeasible from unbounded and the call returned.
C7_Witness ==
    /\ presolve_status = "INFEASIBLE_OR_UNBOUNDED"
    /\ pc = "done"
    /\ response.status = "MPSOLVER_UNKNOWN_STATUS"

\* Presolve ended with Continue and the engine was reached.
C7_ContinueReached == presolve_status = "INIT" /\ SolvedAndReturned

\* C8: when presolve is disabled (mip_presolve_level <= 0) or all solutions
\* are to be enumerated, the presolve steps never run, the stack stays empty,
\* no presolve exit occurs and every postsolve is the unscaling alone.
C8_PresolveOnlyWhenEnabled ==
    params.enumerate_all_solutions \/ params.mip_presolve_level <= 0 =>
        /\ for_postsolve = <<>>
        /\ presolve_status = "NONE"
        /\ "ApplyMipPresolveSteps" \notin Range(calls)
        /\ \A j \in 1..Len(recovered) : recovered[j] = <<>>
        /\ EngineAnswered /\ response.variable_value # <<>> =>
              /\ Len(response.variable_value) = old_num_variables
              /\ \A v \in 1..old_num_variables :
                    response.variable_value[v] * var_scaling[v]
                        = cp_response[1].solution[v] * Unit
        /\ \A j \in 1..Len(response.additional_solutions) :
              Len(response.additional_solutions[j].variable_value) = old_num_variables
        /\ \A j \in 1..Len(delivered) :
              Len(delivered[j].variable_value) = old_num_variables

\* A solved call that asked for every solution while presolve was switched on.
C8_Witness ==
    /\ SolvedAndReturned
    /\ params.enumerate_all_solutions
    /\ params.mip_presolve_level > 0
    /\ response.variable_value # <<>>

\* The caller set only_solve_ip and declared a non-integer variable.
NonIntegerRequested ==
    /\ ~BlobUndecodable
    /\ MergedParams(caller_request).only_solve_ip
    /\ \E i \in 1..Len(caller_request.model.variable) :
          ~caller_request.model.variable[i].is_integer

\* C9, as stated: with only_solve_ip set and a variable of the request
\* declared non-integer, the model is never handed to the converter or the
\* engine, whatever presolve and implied-integer detection do.
C9_NonIntegerRequestNeverConverted ==
    NonIntegerRequested =>
        Range(calls) \cap {"ConvertMPModelProtoToCpModelProto", "SolveCpModel"} = {}

\* C9, amended: when the pure-IP check is reached with only_solve_ip set and
\* a variable of the model as presolve and implied-integer detection left it
\* is non-integer, the call returns ModelInvalid with the message naming
\* only_solve_ip, and the converter and the engine are never given the model.
C9_CheckOnCurrentModel ==
    /\ [][pc = "OnlySolveIp" /\ params.only_solve_ip
            /\ (\E i \in 1..Len(request.model.variable) :
                    ~request.model.variable[i].is_integer)
          => /\ pc' = "done"
             /\ ret'.kind = "response"
             /\ response'.status = "MPSOLVER_MODEL_INVALID"
             /\ response'.status_str = OnlySolveIpMessage
             /\ calls' = calls]_vars
    /\ [](response.status_str = OnlySolveIpMessage =>
            /\ pc = "done"
            /\ Range(calls) \cap {"ConvertMPModelProtoToCpModelProto",
                                  "SolveCpModel"} = {})

\* The check refused a model that implied-integer detection had gone over.
C9_Witness ==
    /\ pc = "done"
    /\ response.status_str = OnlySolveIpMessage
    /\ "DetectImpliedIntegers" \in Range(calls)

\* The hint has been projected into the integer model.
HintProjected ==
    \/ pc \in {"ConfigureSatModel", "SolveCpModel", "InEngine", "ConvertResponse",
               "AdditionalSolutions", "SortAdditional"}
    \/ pc = "done" /\ "SolveCpModel" \in Range(calls)

\* The hint the caller gave, as a list of entries.
CallerHint ==
    IF caller_request.model.solution_hint = <<>>
    THEN <<>> ELSE caller_request.model.solution_hint[1]

\* The positions of the caller's hint whose index is a variable of the model.
KeptHintPositions ==
    {i \in 1..Len(CallerHint) :
        CallerHint[i].var_index >= 0 /\ CallerHint[i].var_index < Len(var_scaling)}

\* The j-th kept position, counting from the front of the caller's hint.
KeptHintPosition(j) ==
    CHOOSE i \in KeptHintPositions :
        Cardinality({k \in KeptHintPositions : k < i}) = j - 1

\* C10: the hint given to the engine is the caller's hint without the entries
\* whose index is not a variable of the model (negative or >= the variable
\* count); the entries left keep their order, their index and their own scaled
\* value, and a dropped entry raises no error.
C10_HintDropsOnlyOutOfRange ==
    HintProjected =>
        /\ ret.kind # "error"
        /\ Len(cp_model.solution_hint) = Cardinality(KeptHintPositions)
        /\ \A j \in 1..Len(cp_model.solution_hint) :
              LET entry == CallerHint[KeptHintPosition(j)]
              IN  /\ cp_model.solution_hint[j].var = entry.var_index
                  /\ cp_model.solution_hint[j].value =
                        Round(CappedHintValue(entry.var_value,
                                              var_scaling[entry.var_index + 1],
                                              params.mip_max_bound))

\* A hint whose first entry was dropped and whose second entry was kept.
C10_Witness ==
    /\ HintProjected
    /\ Len(CallerHint) >= 2
    /\ 1 \notin KeptHintPositions
    /\ 2 \in KeptHintPositions
    /\ Len(cp_model.solution_hint) = Cardinality(KeptHintPositions)

\* C11: every kept hint entry reaches the engine with magnitude at most
\* mip_max_bound: when the scaled value exceeds the bound in magnitude the
\* integer handed over is exactly +mip_max_bound or -mip_max_bound, also after
\* the rounding; otherwise it is the scaled value rounded to the nearest
\* integer.
C11_HintWithinMaxBound ==
    HintProjected =>
        \A j \in 1..Len(cp_model.solution_hint) :
            LET entry == CallerHint[KeptHintPosition(j)]
                scaled == entry.var_value * var_scaling[entry.var_index + 1]
                value == cp_model.solution_hint[j].value * Unit
            IN  /\ Abs(value) <= params.mip_max_bound
                /\ IF Abs(scaled) > params.mip_max_bound
                   THEN value = (IF scaled > 0 THEN params.mip_max_bound
                                 ELSE -params.mip_max_bound)
                   ELSE 2 * Abs(value - scaled) <= Unit

\* C12: with a solution consumer supplied, every solution the engine reports
\* is postsolved and handed to the consumer inside the engine's callback,
\* before the engine takes another step: one delivery per report, in the order
\* of the reports, all of them before the call returns, and never more than
\* one solution in flight.
C12_SolutionsStreamedInOrder ==
    /\ [](/\ Len(pending) <= 1
          /\ Len(reported) = Len(delivered) + Len(pending)
          /\ pending # <<>> => pc = "InEngine" /\ pending[1] = reported[Len(reported)]
          /\ \A i \in 1..Len(delivered) :
                delivered[i] = MPSolution(PostSolve(reported[i].solution,
                                                    reported[i].objective_value,
                                                    for_postsolve, var_scaling,
                                                    old_num_variables))
          /\ reported # <<>> => solution_callback
          /\ pc = "done" => pending = <<>> /\ Len(delivered) = Len(reported))
    /\ [][/\ pending # <<>> =>
                /\ pending' = <<>>
                /\ Len(delivered') = Len(delivered) + 1
                /\ reported' = reported
          /\ delivered' # delivered => pc = "InEngine" /\ pc' = "InEngine"]_vars

\* The engine reported two different solutions and both reached the consumer
\* before the call returned.
C12_Witness ==
    /\ pc = "done"
    /\ Len(delivered) = 2
    /\ delivered[1] # delivered[2]
    /\ reported[1] # reported[2]

\* The additional solutions of the response in the order the loop of lines
\* 402-422 appended them, which is the order the engine reported them in.
EngineOrder ==
    LET ps == PostsolvedAdditional(cp_response[1].additional_solutions, 1,
                                   cp_response[1].solution, cp_model, for_postsolve,
                                   var_scaling, old_num_variables)
    IN  [i \in 1..Len(ps) |-> MPSolution(ps[i])]

\* The solutions of a list that carry the objective value v, in list order.
WithObjective(solutions, v) ==
    SelectSeq(solutions, LAMBDA s : s.objective_value = v)

\* C13: additional solutions of equal objective value are returned in the
\* order the engine reported them, whatever the direction of optimization.
C13_TiesKeepEngineOrder ==
    SolvedAndReturned =>
        \A s \in Range(response.additional_solutions) :
            WithObjective(response.additional_solutions, s.objective_value)
                = WithObjective(EngineOrder, s.objective_value)

\* The additional solutions have been copied into the response.
AdditionalCopied == pc = "SortAdditional" \/ SolvedAndReturned

\* The positions of the engine's additional solutions whose values differ from
\* the primary solution's.
DistinctFromPrimary ==
    {i \in 1..Len(cp_response[1].additional_solutions) :
        cp_response[1].additional_solutions[i] # cp_response[1].solution}

\* The ways of matching the response's additional solutions one to one with
\* the engine's additional solutions that differ from the primary.
Matchings ==
    {f \in [1..Len(response.additional_solutions) -> DistinctFromPrimary] :
        \A i, j \in DOMAIN f : f[i] = f[j] => i = j}

\* C14: the additional solutions of the response are the engine's additional
\* solutions whose value vector differs from the primary's, each postsolved on
\* its own and reported exactly once; one identical to the primary is never
\* reported.
C14_AdditionalDeduplicated ==
    AdditionalCopied =>
        /\ Len(response.additional_solutions) = Cardinality(DistinctFromPrimary)
        /\ \E f \in Matchings :
              \A k \in DOMAIN f :
                  response.additional_solutions[k].variable_value =
                      PostSolve(cp_response[1].additional_solutions[f[k]], 0,
                                for_postsolve, var_scaling, old_num_variables)
                          .variable_value
        /\ response.variable_value # <<>> =>
              \A k \in 1..Len(response.additional_solutions) :
                  response.additional_solutions[k].variable_value
                      # response.variable_value

\* The engine returned the primary solution again among its additional
\* solutions, next to one that differs from it.
C14_Witness ==
    /\ SolvedAndReturned
    /\ cp_response[1].solution # <<>>
    /\ cp_response[1].solution \in Range(cp_response[1].additional_solutions)
    /\ Len(response.additional_solutions) = 1
    /\ Len(cp_response[1].additional_solutions) >= 2

\* var_scaling exists and the model it was sized from is still there.
ScalingBuilt ==
    \/ pc \in {"OnlySolveIp", "ConvertModel", "ProjectHint", "ConfigureSatModel"}
    \/ pc = "done" /\ calls # <<>> /\ cp_response = <<>>
         /\ \/ Last(calls) = "ConvertMPModelProtoToCpModelProto"
            \/ response.status_str = OnlySolveIpMessage
            \/ response.status_str = <<"A detected integer variable has an empty domain">>

\* The integer model has been built.
Converted ==
    \/ pc \in {"ProjectHint", "ConfigureSatModel", "SolveCpModel", "InEngine",
               "ConvertResponse", "AdditionalSolutions", "SortAdditional"}
    \/ SolvedAndReturned

\* The request has been cleared and the variable count captured.
Captured ==
    \/ pc \in {"SolveCpModel", "InEngine", "ConvertResponse", "AdditionalSolutions",
               "SortAdditional"}
    \/ SolvedAndReturned

\* The engine solutions post_solve has been or will be given.
EngineSolutionsSeen ==
    {reported[i].solution : i \in 1..Len(reported)}
    \cup (IF cp_response = <<>> THEN {}
          ELSE Range(cp_response[1].additional_solutions)
               \cup (IF cp_response[1].solution = <<>> THEN {}
                     ELSE {cp_response[1].solution}))

\* C15: from its creation on, var_scaling has one entry per variable of the
\* model: after implied-integer detection, after the uniform factor has been
\* multiplied in, at conversion (one entry per variable of the integer
\* model), in hint projection and in every postsolve (one entry per engine
\* value read).
C15_ScalingLengthIsVariableCount ==
    /\ ScalingBuilt =>
          /\ Len(var_scaling) = Len(request.model.variable)
          /\ Len(detected_scaling) = Len(request.model.variable)
          /\ "ScaleContinuousVariables" \in Range(calls)
                => Len(other_scaling) = Len(request.model.variable)
    /\ Converted =>
          /\ cp_model.variables = Len(var_scaling)
          /\ \A j \in 1..Len(cp_model.solution_hint) :
                cp_model.solution_hint[j].var \in 0..(Len(var_scaling) - 1)
    /\ Captured =>
          /\ old_num_variables = Len(var_scaling)
          /\ \A sol \in EngineSolutionsSeen : Len(sol) = Len(var_scaling)

\* A solved call whose presolve removed a column before a uniform factor was
\* multiplied into the vector.
C15_Witness ==
    /\ SolvedAndReturned
    /\ response.variable_value # <<>>
    /\ "ScaleContinuousVariables" \in Range(calls)
    /\ Len(var_scaling) >= 1
    /\ Len(var_scaling) < Len(caller_request.model.variable)

\* The call returned a response before the engine was entered, and the
\* response is not the model validator's.
EarlyExit ==
    /\ pc = "done"
    /\ ret.kind = "response"
    /\ "SolveCpModel" \notin Range(calls)
    /\ Last(calls) # "ExtractValidMPModelInPlaceOrPopulateResponseStatus"

\* C16: every early exit other than the configuration error (extra validation
\* failure, empty integer domain, each presolve outcome other than Continue,
\* the only_solve_ip refusal, conversion failure) returns normally with a
\* response carrying a status and a non-empty status message.
C16_EarlyExitsCarryMessage ==
    EarlyExit =>
        /\ response.status \in {"MPSOLVER_INFEASIBLE", "MPSOLVER_MODEL_INVALID",
                                "MPSOLVER_UNKNOWN_STATUS"}
        /\ response.status_str # <<>>
        /\ \A i \in 1..Len(response.status_str) : response.status_str[i] # ""

\* C18, as stated: the infeasible-or-unbounded presolve outcome returns status
\* Unknown with a status message exactly when log_search_progress is enabled.
C18_MessageOnlyUnderLogging ==
    presolve_status = "INFEASIBLE_OR_UNBOUNDED" =>
        /\ response.status = "MPSOLVER_UNKNOWN_STATUS"
        /\ response.status_str # <<>> <=> params.log_search_progress

\* C18, amended: the infeasible-or-unbounded presolve outcome returns status
\* Unknown with the message "Problem proven infeasible or unbounded during MIP
\* presolve" whether log_search_progress is enabled or not.
C18_MessageWhateverLogging ==
    presolve_status = "INFEASIBLE_OR_UNBOUNDED" =>
        /\ pc = "done"
        /\ ret.kind = "response"
        /\ response.status = "MPSOLVER_UNKNOWN_STATUS"
        /\ response.status_str
              = <<"Problem proven infeasible or unbounded during MIP presolve">>

\* The outcome was reached with logging disabled and the response carries the
\* message.
C18_Witness ==
    /\ presolve_status = "INFEASIBLE_OR_UNBOUNDED"
    /\ pc = "done"
    /\ ~params.log_search_progress
    /\ ~logger.enabled
    /\ response.status_str # <<>>

\* The outcome was reached with logging enabled.
C18_LoggingReached ==
    /\ presolve_status = "INFEASIBLE_OR_UNBOUNDED"
    /\ pc = "done"
    /\ params.log_search_progress

\* The sum of coefficient * engine value over the objective terms in T.
RECURSIVE TermsTotal(_, _, _)
TermsTotal(objective, values, T) ==
    IF T = {} THEN 0
    ELSE LET i == CHOOSE t \in T : TRUE
         IN  objective.coeffs[i] * values[objective.vars[i] + 1]
                 + TermsTotal(objective, values, T \ {i})

\* Offset plus objective terms of an engine assignment, times the declared
\* scaling factor, where a factor of zero (unset) counts as one.
RecomputedObjective(values) ==
    LET raw == cp_model.floating_point_objective.offset
                  + TermsTotal(cp_model.floating_point_objective, values,
                               DOMAIN cp_model.floating_point_objective.vars)
    IN  IF cp_model.objective.scaling_factor = 0
        THEN raw
        ELSE (raw * cp_model.objective.scaling_factor) \div Unit

\* C19: the objective value of every additional solution of the response is
\* (offset + sum of coefficient * engine value over the objective terms) times
\* the declared scaling factor, a factor unset or zero counting as one; it is
\* the objective the engine declares for that assignment.
C19_AdditionalObjectiveRecomputed ==
    AdditionalCopied =>
        \E f \in Matchings :
            \A k \in DOMAIN f :
                LET values == cp_response[1].additional_solutions[f[k]]
                    reported_solution == response.additional_solutions[k]
                IN  /\ reported_solution.variable_value =
                          PostSolve(values, 0, for_postsolve, var_scaling,
                                    old_num_variables).variable_value
                    /\ reported_solution.objective_value = RecomputedObjective(values)
                    /\ reported_solution.objective_value
                          = EngineObjective(cp_model, values)

\* An additional solution was reported under a declared scaling factor of 2
\* with a non-zero objective term.
C19_Witness ==
    /\ SolvedAndReturned
    /\ cp_model.objective.scaling_factor = 2 * Unit
    /\ \E k \in 1..Len(response.additional_solutions) :
          response.additional_solutions[k].objective_value
              > 2 * cp_model.floating_point_objective.offset

\* An additional solution was reported with the scaling factor unset.
C19_UnsetFactorReached ==
    /\ SolvedAndReturned
    /\ cp_model.objective.scaling_factor = 0
    /\ \E k \in 1..Len(response.additional_solutions) :
          response.additional_solutions[k].objective_value
              > cp_model.floating_point_objective.offset

\* A uniform factor other than 1 was configured and has been applied.
UniformApplied == "ScaleContinuousVariables" \in Range(calls)

\* The factor of variable v: detected factor times uniform factor.
ProductFactor(v) == detected_scaling[v] * other_scaling[v]

\* Original-space values tried in the round trip: -2, -0.75, 0, 0.5, 1, 1.5, 2.5.
RoundTripValues == {-2 * Unit, -3, 0, 2, Unit, 6, 10}

\* C20: with a uniform factor other than 1 configured, every entry of the
\* final var_scaling is the product of the detected factor and the uniform
\* factor of its variable; hint values are scaled forward and engine values
\* divided in postsolve by that same product, so a value whose scaled image is
\* an integer within the bound comes back unchanged.
C20_ScalingIsProduct ==
    UniformApplied =>
        /\ params.mip_var_scaling # 1
        /\ DOMAIN var_scaling = DOMAIN detected_scaling
        /\ DOMAIN var_scaling = DOMAIN other_scaling
        /\ \A v \in DOMAIN var_scaling : var_scaling[v] = ProductFactor(v)
        /\ HintProjected =>
              \A j \in 1..Len(cp_model.solution_hint) :
                  LET entry == CallerHint[KeptHintPosition(j)]
                      scaled == entry.var_value * ProductFactor(entry.var_index + 1)
                  IN  Abs(scaled) <= params.mip_max_bound =>
                        2 * Abs(cp_model.solution_hint[j].value * Unit - scaled) <= Unit
        /\ EngineAnswered /\ response.variable_value # <<>> =>
              \A v \in 1..old_num_variables :
                  (cp_response[1].solution[v] * Unit) % ProductFactor(v) = 0 =>
                      response.variable_value[v] * ProductFactor(v)
                          = cp_response[1].solution[v] * Unit
        /\ \A v \in DOMAIN var_scaling : \A x \in RoundTripValues :
              /\ (x * var_scaling[v]) % Unit = 0
              /\ Abs(x * var_scaling[v]) <= params.mip_max_bound
              => Unscaled(<<Round(CappedHintValue(x, var_scaling[v],
                                                  params.mip_max_bound))>>,
                          <<var_scaling[v]>>, 1) = <<x>>

\* A solved call in which one variable carries a detected factor of 2, the
\* other a uniform factor other than 1, and a hint was projected.
C20_Witness ==
    /\ SolvedAndReturned
    /\ UniformApplied
    /\ response.variable_value # <<>>
    /\ cp_model.solution_hint # <<>>
    /\ \E v \in DOMAIN var_scaling : detected_scaling[v] = 2 /\ other_scaling[v] = 1
    /\ \E v \in DOMAIN var_scaling : detected_scaling[v] = 1 /\ other_scaling[v] > 1

\* The call returned the response the model validator populated.
ValidatorExit ==
    /\ pc = "done"
    /\ calls # <<>>
    /\ Last(calls) = "ExtractValidMPModelInPlaceOrPopulateResponseStatus"

\* C21: on the validator's early exit the status line given to the logger is
\* optimal for optimal, infeasible for infeasible, model-invalid for
\* model-invalid and unknown for every other response status; the response
\* returned is the validator's, untouched, with logging enabled or not.
C21_ReverseStatusMapping ==
    ValidatorExit =>
        /\ ret.kind = "response"
        /\ response.status_str = <<"validator">>
        /\ response = [EmptyResponse EXCEPT !.status = response.status,
                                            !.status_str = <<"validator">>]
        /\ ~logger.enabled => logger.stats = <<>>
        /\ logger.enabled =>
              /\ Len(logger.stats) = 1
              /\ response.status = "MPSOLVER_OPTIMAL" => logger.stats[1] = "OPTIMAL"
              /\ response.status = "MPSOLVER_INFEASIBLE" => logger.stats[1] = "INFEASIBLE"
              /\ response.status = "MPSOLVER_MODEL_INVALID"
                    => logger.stats[1] = "MODEL_INVALID"
              /\ response.status \notin {"MPSOLVER_OPTIMAL", "MPSOLVER_INFEASIBLE",
                                         "MPSOLVER_MODEL_INVALID"}
                    => logger.stats[1] = "UNKNOWN"

\* The validator returned a status the reverse mapping does not name, with
\* logging enabled.
C21_Witness ==
    /\ ValidatorExit
    /\ logger.enabled
    /\ response.status = "MPSOLVER_ABNORMAL"
    /\ logger.stats = <<"UNKNOWN">>

\* The validator's response was returned with logging disabled.
C21_SilentReached == ValidatorExit /\ ~logger.enabled /\ response.status = "MPSOLVER_OPTIMAL"

\* The messages of the early exits that return a response of their own.
EarlyExitMessages ==
    {<<"Extra CP-SAT validation failed.">>,
     <<"An integer variable has an empty domain">>,
     <<"A detected integer variable has an empty domain">>,
     <<"Problem proven infeasible during MIP presolve">>,
     <<"Problem detected invalid during MIP presolve">>,
     <<"Problem proven infeasible or unbounded during MIP presolve">>,
     OnlySolveIpMessage,
     <<"Failed to convert model into CP-SAT model">>}

\* The call returned through one of its early exits: configuration error,
\* validator response, extra validation failure, invalid parameters, empty
\* integer domain, a presolve outcome other than Continue, the only_solve_ip
\* refusal or a conversion failure.
ReturnedEarly ==
    /\ pc = "done"
    /\ \/ ret.kind = "error"
       \/ ValidatorExit
       \/ RangeViolationReported
       \/ response.status_str \in EarlyExitMessages
       \/ presolve_status \notin {"NONE", "INIT"}

\* C22: on every early exit the engine was never invoked, the solution
\* consumer never called, and the response holds no variable values, no
\* additional solutions and no engine timing statistics.
C22_EarlyExitsSkipEngine ==
    ReturnedEarly =>
        /\ "SolveCpModel" \notin Range(calls)
        /\ cp_response = <<>>
        /\ reported = <<>>
        /\ delivered = <<>>
        /\ recovered = <<>>
        /\ ~sat_model.observer
        /\ response.variable_value = <<>>
        /\ response.additional_solutions = <<>>
        /\ response.solve_info = <<>>
        /\ response.objective_value = <<>>

\* A call given a solution consumer left through a presolve exit.
C22_Witness ==
    /\ ReturnedEarly
    /\ solution_callback
    /\ presolve_status = "PRIMAL_INFEASIBLE"
    /\ delivered = <<>>

\* A call left through a failed conversion.
C22_ConversionFailureReached ==
    /\ ReturnedEarly
    /\ response.status_str = <<"Failed to convert model into CP-SAT model">>

\* The number of columns the presolve steps removed.
RECURSIVE RemovedColumns(_)
RemovedColumns(stack) ==
    IF stack = <<>> THEN 0
    ELSE stack[Len(stack)].cols + RemovedColumns(SubSeq(stack, 1, Len(stack) - 1))

\* C23: after the engine has answered, the response carries the primary
\* objective value, the best bound and one value per variable if and only if
\* its status is feasible or optimal, and leaves them unset otherwise; the
\* engine's timing statistics are set and its additional solutions postsolved
\* and reported whatever the status.
C23_PrimaryFieldsIffSolved ==
    EngineAnswered =>
        /\ IF response.status \in {"MPSOLVER_FEASIBLE", "MPSOLVER_OPTIMAL"}
           THEN /\ response.objective_value = <<cp_response[1].objective_value>>
                /\ response.best_objective_bound
                      = <<cp_response[1].best_objective_bound>>
                /\ Len(response.variable_value)
                      = old_num_variables + RemovedColumns(for_postsolve)
           ELSE /\ response.objective_value = <<>>
                /\ response.best_objective_bound = <<>>
                /\ response.variable_value = <<>>
        /\ response.solve_info = <<[solve_wall_time_seconds |-> cp_response[1].wall_time,
                                    solve_user_time_seconds |-> cp_response[1].user_time]>>
        /\ pc # "AdditionalSolutions" =>
              Len(response.additional_solutions) = Cardinality(DistinctFromPrimary)

\* The engine answered UNKNOWN with additional solutions: they are reported,
\* the primary fields are not.
C23_Witness ==
    /\ SolvedAndReturned
    /\ response.status = "MPSOLVER_NOT_SOLVED"
    /\ response.additional_solutions # <<>>
    /\ response.variable_value = <<>>
    /\ response.objective_value = <<>>
    /\ response.solve_info # <<>>

\* The engine answered FEASIBLE and the primary fields are filled.
C23_FeasibleReached ==
    /\ SolvedAndReturned
    /\ response.status = "MPSOLVER_FEASIBLE"
    /\ response.variable_value # <<>>
    /\ response.objective_value # <<>>

\* The parameters have been merged from a configuration that decodes.
ParamsMerged == pc # "MergeParameters" /\ ret.kind # "error"

\* The fields the caller's blob sets; none when there is no blob.
BlobFields ==
    IF caller_request.solver_specific_parameters = <<>>
    THEN NoFields ELSE caller_request.solver_specific_parameters[1].fields

\* C24: the request's verbose-output flag is a default the blob may override;
\* a time limit given in the request overrides any time limit of the blob; the
\* logger is enabled according to the merged value, not the request's flag.
C24_ConfigurationPrecedence ==
    ParamsMerged =>
        /\ params.log_search_progress =
              (IF BlobFields.log_search_progress # <<>>
               THEN BlobFields.log_search_progress[1]
               ELSE caller_request.enable_internal_solver_output)
        /\ params.max_time_in_seconds =
              (IF caller_request.solver_time_limit_seconds # <<>>
               THEN caller_request.solver_time_limit_seconds[1]
               ELSE IF BlobFields.max_time_in_seconds # <<>>
                    THEN BlobFields.max_time_in_seconds[1]
                    ELSE DefaultParams.max_time_in_seconds)
        /\ pc # "ConfigureLogger" => logger.enabled = params.log_search_progress

\* The request asked for verbose output and gave a time limit; the blob turned
\* the output off and gave another limit.
C24_Witness ==
    /\ pc = "done"
    /\ ParamsMerged
    /\ caller_request.enable_internal_solver_output
    /\ BlobFields.log_search_progress = <<FALSE>>
    /\ ~logger.enabled
    /\ BlobFields.max_time_in_seconds # <<>>
    /\ caller_request.solver_time_limit_seconds # <<>>
    /\ BlobFields.max_time_in_seconds # caller_request.solver_time_limit_seconds
    /\ params.max_time_in_seconds = caller_request.solver_time_limit_seconds[1]

====
